---- MODULE Spec2Model ----
(***************************************************************************)
(* Model of subdomain_discovery.py: the asyncio orchestrator (main), the   *)
(* DNS pipeline (get_subdomains_from_dns with its attempt_axfr probes),    *)
(* the crt.sh retriever (get_subdomains_from_crtsh) and the shared         *)
(* asyncio.Semaphore.  One action per await point of the coroutines.       *)
(* Text is a sequence of one-character strings.                            *)
(***************************************************************************)
EXTENDS Integers, Sequences, FiniteSets, TLC

\* ------------------------------------------------------------------ bounds
MaxNS == 2
MaxRetries == 3
MaxConcurrency == 2

\* ------------------------------------------------------------------ text
\* Python str.lower() on the characters the model uses.
LowerChar(c) ==
    CASE c = "A" -> "a"
      [] c = "B" -> "b"
      [] c = "D" -> "d"
      [] c = "E" -> "e"
      [] OTHER -> c

Lower(s) == [i \in 1..Len(s) |-> LowerChar(s[i])]

\* ord() of the characters the model uses (sorted() compares code points).
Ord(c) ==
    CASE c = "\n" -> 10
      [] c = " " -> 32
      [] c = "#" -> 35
      [] c = "*" -> 42
      [] c = "." -> 46
      [] c = "A" -> 65
      [] c = "B" -> 66
      [] c = "D" -> 68
      [] c = "E" -> 69
      [] c = "a" -> 97
      [] c = "b" -> 98
      [] c = "d" -> 100
      [] c = "e" -> 101
      [] OTHER -> 127

\* str.endswith / str.startswith
EndsWith(s, suffix) ==
    /\ Len(suffix) <= Len(s)
    /\ SubSeq(s, Len(s) - Len(suffix) + 1, Len(s)) = suffix

StartsWith(s, prefix) ==
    /\ Len(prefix) <= Len(s)
    /\ SubSeq(s, 1, Len(prefix)) = prefix

\* str.rstrip('.'): drops every trailing dot.
RECURSIVE RStripDot(_)
RStripDot(s) ==
    IF s # <<>> /\ s[Len(s)] = "."
    THEN RStripDot(SubSeq(s, 1, Len(s) - 1))
    ELSE s

IsSpace(c) == c \in {" ", "\n"}

RECURSIVE LStripSpace(_)
LStripSpace(s) ==
    IF s # <<>> /\ IsSpace(s[1]) THEN LStripSpace(Tail(s)) ELSE s

RECURSIVE RStripSpace(_)
RStripSpace(s) ==
    IF s # <<>> /\ IsSpace(s[Len(s)])
    THEN RStripSpace(SubSeq(s, 1, Len(s) - 1))
    ELSE s

\* str.strip()
Strip(s) == RStripSpace(LStripSpace(s))

\* str.splitlines(): the lines of s, without their line ends; a final line
\* end opens no further line.
RECURSIVE SplitLinesFrom(_, _)
SplitLinesFrom(s, cur) ==
    IF s = <<>>
    THEN IF cur = <<>> THEN <<>> ELSE <<cur>>
    ELSE IF s[1] = "\n"
         THEN <<cur>> \o SplitLinesFrom(Tail(s), <<>>)
         ELSE SplitLinesFrom(Tail(s), Append(cur, s[1]))

SplitLines(s) == SplitLinesFrom(s, <<>>)

\* Python's ordering of two str values (code point by code point, a proper
\* prefix first).
RECURSIVE StrLess(_, _)
StrLess(s, t) ==
    IF t = <<>> THEN FALSE
    ELSE IF s = <<>> THEN TRUE
    ELSE IF Ord(s[1]) # Ord(t[1]) THEN Ord(s[1]) < Ord(t[1])
    ELSE StrLess(Tail(s), Tail(t))

Dot == <<".">>
Wild == <<"*", ".">>

\* ------------------------------------------------------------------ inputs
\* Target domains (args.domain): one lower-case, one given in upper case.
Domains == { <<"d">>, <<"D">> }

\* Zones a nameserver may hand out on AXFR: the set of node names as
\* name.to_text() renders them (absolute, with the final dot).
Zones ==
    { { <<"d", ".">>, <<"a", ".", "d", ".">> },
      { <<"d", ".">>, <<"b", ".", "d", ".">>, <<"*", ".", "d", ".">> },
      { <<"D", ".">>, <<"A", ".", "D", ".">> } }

\* Answers to the MX query: the set of mx.exchange names.
MxAnswers ==
    { { <<"A", ".", "d", ".">>, <<"b", ".", "e", ".">> },
      { <<"d", ".">>, <<"a", "d", ".">> } }

\* name_value fields of crt.sh entries (newline-separated names).
NvWildDup == <<"*", ".", "a", ".", "d", "\n", "A", ".", "D">>
NvMixed == <<" ", "b", ".", "d", " ", "\n", "d", "\n", "b", ".", "e">>
NvDoubleWild == <<"*", ".", "*", ".", "d">>

\* A decoded entry: a JSON object (its name_value, '' when the key is
\* missing) or any other JSON value.
DictEntry(nv) == [dict |-> TRUE, name_value |-> nv]
NonDictEntry == [dict |-> FALSE, name_value |-> <<>>]

\* Response bodies of a 200 answer: text is "empty" (''), "html" or
\* "garbage" (neither decodes as JSON), or "json" with the decoded array.
Body(text, data) == [text |-> text, data |-> data]

BodyGood == Body("json", <<DictEntry(NvWildDup), DictEntry(NvMixed)>>)
BodyDoubleWild == Body("json", <<DictEntry(NvDoubleWild)>>)
BodyBadEntry == Body("json", <<DictEntry(NvWildDup), NonDictEntry>>)
BodyNoNames == Body("json", <<DictEntry(<<>>)>>)
BodyEmptyArray == Body("json", <<>>)
BodyEmptyText == Body("empty", <<>>)
BodyHtml == Body("html", <<>>)
BodyGarbage == Body("garbage", <<>>)

Bodies ==
    { BodyGood, BodyDoubleWild, BodyBadEntry, BodyNoNames, BodyEmptyArray,
      BodyEmptyText, BodyHtml, BodyGarbage }

\* HTTP statuses the endpoint may answer with besides 200.
TransientStatuses == {500, 502, 503, 504, 429}
HttpStatuses == {503, 429, 404}

\* ------------------------------------------------------------------ pure code
\* attempt_axfr, the loop over zone.nodes: full_name is the node's text
\* without final dots; kept when it ends with "." + domain and differs
\* from domain (no case folding on either side).
AxfrFullName(node) == RStripDot(node)

AxfrKeep(dom, full_name) == EndsWith(full_name, Dot \o dom) /\ full_name # dom

AxfrFound(dom, zone) ==
    { AxfrFullName(n) : n \in { m \in zone : AxfrKeep(dom, AxfrFullName(m)) } }

\* get_subdomains_from_dns, the loop over mx_records.
MxHost(exchange) == Lower(RStripDot(exchange))

MxKeepNoDot(dom, host) == EndsWith(host, Lower(dom))

MxKeep(dom, host) == EndsWith(host, Dot \o Lower(dom))

MxHosts(dom, answer) ==
    { MxHost(x) : x \in { y \in answer : MxKeep(dom, MxHost(y)) } }

\* get_subdomains_from_crtsh, one name of a name_value field.
CleanName(name) ==
    LET c == Lower(Strip(name))
    IN  IF StartsWith(c, Wild) THEN SubSeq(c, 3, Len(c)) ELSE c

CrtKeep(dom, clean_name) ==
    /\ clean_name # <<>>
    /\ EndsWith(clean_name, Dot \o Lower(dom))
    /\ clean_name # Lower(dom)

NamesOfEntry(dom, nv) ==
    LET lines == SplitLines(nv)
    IN  { CleanName(lines[i]) :
            i \in { j \in 1..Len(lines) : CrtKeep(dom, CleanName(lines[j])) } }

\* The loop over data: entries are processed in order into subdomains; an
\* entry that is no object raises (no .get), which ends the loop with what
\* was added so far.  Result: the set and whether the loop raised.
RECURSIVE CrtCollect(_, _, _)
CrtCollect(dom, data, subs) ==
    IF data = <<>> THEN [subdomains |-> subs, raised |-> FALSE]
    ELSE IF ~data[1].dict THEN [subdomains |-> subs, raised |-> TRUE]
    ELSE CrtCollect(dom, Tail(data),
                    subs \cup NamesOfEntry(dom, data[1].name_value))

\* What a 200 answer leads to: "return" (parsed, line 217), "break" (empty
\* text, empty data or a processing error) or "decode_error".
On200(dom, body, subs) ==
    IF body.text = "empty" THEN [then |-> "break", subdomains |-> subs]
    ELSE IF body.text # "json"
         THEN [then |-> "decode_error", subdomains |-> subs]
    ELSE IF body.data = <<>> THEN [then |-> "break", subdomains |-> subs]
    ELSE LET r == CrtCollect(dom, body.data, subs)
         IN  [then |-> IF r.raised THEN "break" ELSE "return",
              subdomains |-> r.subdomains]

initial_delay == 2

BackoffConstant(attempt) == initial_delay

\* retry_delay = initial_delay * (2 ** attempt)
Backoff(attempt) == initial_delay * (2 ^ attempt)

RetryLeftOffByOne(attempt, retries) == attempt < retries

\* attempt < max_retries - 1: another iteration of the loop follows.
HasRetryLeft(attempt, retries) == attempt < retries - 1

NeverRetry(attempt, retries) == FALSE

\* The JSONDecodeError handler breaks only on the last attempt
\* (if attempt >= max_retries - 1: break); otherwise the loop goes on.
RetryAfterDecodeError(attempt, retries) == ~(attempt >= retries - 1)

RECURSIVE SortedDescending(_)
SortedDescending(S) ==
    IF S = {} THEN <<>>
    ELSE LET m == CHOOSE x \in S : \A y \in S \ {x} : StrLess(y, x)
         IN  <<m>> \o SortedDescending(S \ {m})

\* sorted(): the ascending sequence of the elements of a set of str.
RECURSIVE Sorted(_)
Sorted(S) ==
    IF S = {} THEN <<>>
    ELSE LET m == CHOOSE x \in S : \A y \in S \ {x} : StrLess(x, y)
         IN  <<m>> \o Sorted(S \ {m})

SeqToSet(q) == { q[i] : i \in 1..Len(q) }

\* f.write("# No subdomains found.\n")
Placeholder ==
    <<"#", " ", "N", "o", " ", "s", "u", "b", "d", "o", "m", "a", "i", "n",
      "s", " ", "f", "o", "u", "n", "d", ".">>

\* The lines main writes, in order: the placeholder when the list is empty,
\* then one line per entry.
FileLines(all) == (IF all = <<>> THEN <<Placeholder>> ELSE <<>>) \o all

\* ------------------------------------------------------------------ state
VARIABLES
    domain,          \* args.domain
    concurrency,     \* args.concurrency
    max_retries,     \* args.retries
    sem,             \* semaphore._value
    main_pc,         \* main: "gather", "write", "done"; "interrupted"
    dns_pc,          \* get_subdomains_from_dns: its await point
    ns_count,        \* len(ns_servers)
    axfr_pc,         \* attempt_axfr per nameserver: its await point
    axfr_res,        \* what each attempt_axfr returned
    axfr_how,        \* how each probe ended: "ok", or "failed" (it raised)
    dns_subdomains,  \* the local subdomains of get_subdomains_from_dns
    dns_result,      \* results[0] of gather
    dns_queries,     \* the DNS requests get_subdomains_from_dns and its
                     \* probes have issued, in order: "NS", "AXFR", "TXT", "MX"
    wildcard_txt,    \* how the wildcard TXT query ended, while the MX query
                     \* is in flight; "none" otherwise
    mx_records,      \* the exchanges of the MX answer, {} when there was none
    crt_pc,          \* get_subdomains_from_crtsh: its await point
    attempt,         \* the loop variable attempt
    crt_subdomains,  \* the local subdomains of get_subdomains_from_crtsh
    crt_result,      \* results[1] of gather
    crt_log,         \* what each HTTP attempt met, in order: "transient" (a
                     \* status of TransientStatuses, a timeout or a client
                     \* error), "decode_error", "ok", "break", "status", "raise"
    crt_body,        \* the last 200 body whose entries were read
    delays,          \* the arguments of asyncio.sleep, in order
    settle_order,    \* the order in which the two tasks settled
    all_subdomains,  \* main's sorted list
    output,          \* the lines of the output file
    write_state,     \* "none", "ok", "error"
    exit_code        \* the process exit status, -1 while running

vars ==
    <<domain, concurrency, max_retries, sem, main_pc, dns_pc, ns_count,
      axfr_pc, axfr_res, axfr_how, dns_subdomains, dns_result, dns_queries,
      wildcard_txt, mx_records, crt_pc, attempt, crt_subdomains, crt_result, crt_log, crt_body, delays,
      settle_order, all_subdomains, output, write_state, exit_code>>

cfg_vars == <<domain, concurrency, max_retries>>
dns_trace == <<dns_queries, wildcard_txt, mx_records>>
dns_vars ==
    <<dns_pc, ns_count, axfr_pc, axfr_res, axfr_how, dns_subdomains,
      dns_result, dns_trace>>
crt_vars ==
    <<crt_pc, attempt, crt_subdomains, crt_result, crt_log, crt_body, delays>>
main_vars == <<main_pc, all_subdomains, output, write_state, exit_code>>

NS == 1..MaxNS

Pending == [kind |-> "pending", value |-> {}]
SetResult(v) == [kind |-> "set", value |-> v]
ExcResult == [kind |-> "exc", value |-> {}]

NoBody == Body("none", <<>>)

Init ==
    /\ domain \in Domains
    /\ concurrency \in 1..MaxConcurrency
    /\ max_retries \in 0..MaxRetries
    /\ sem = concurrency
    /\ main_pc = "gather"
    /\ dns_pc = "acquire_ns"
    /\ ns_count = 0
    /\ axfr_pc = [i \in NS |-> "idle"]
    /\ axfr_res = [i \in NS |-> {}]
    /\ axfr_how = [i \in NS |-> "none"]
    /\ dns_subdomains = {}
    /\ dns_result = Pending
    /\ dns_queries = <<>>
    /\ wildcard_txt = "none"
    /\ mx_records = {}
    /\ crt_pc = "acquire"
    /\ attempt = 0
    /\ crt_subdomains = {}
    /\ crt_result = Pending
    /\ crt_log = <<>>
    /\ crt_body = NoBody
    /\ delays = <<>>
    /\ settle_order = <<>>
    /\ all_subdomains = <<>>
    /\ output = <<>>
    /\ write_state = "none"
    /\ exit_code = -1

\* ------------------------------------------------------------------ semaphore
AcquireAlways(s) == TRUE

AcquireOffByOne(s) == s > 1

\* Semaphore.acquire returns only while the value is positive.
CanAcquire(s) == s > 0

ReleaseLeaks(s) == s

\* Semaphore.release, run by __aexit__ on every way out of "async with".
Release(s) == s + 1

Running == main_pc = "gather"

\* ------------------------------------------------------------------ DNS pipeline
\* return <set> from get_subdomains_from_dns: results[0] is set.
DnsReturn(v) ==
    /\ dns_pc' = "done"
    /\ dns_result' = SetResult(v)
    /\ settle_order' = Append(settle_order, "dns")

\* line 50: async with semaphore
DnsAcquireNs ==
    /\ Running
    /\ dns_pc = "acquire_ns"
    /\ CanAcquire(sem)
    /\ sem' = sem - 1
    /\ dns_pc' = "ns_query"
    /\ dns_queries' = Append(dns_queries, "NS")
    /\ UNCHANGED <<cfg_vars, wildcard_txt, mx_records, ns_count, axfr_pc, axfr_res, axfr_how,
                   dns_subdomains, dns_result, crt_vars, settle_order,
                   main_vars>>

DnsNsFailsFallsThrough ==
    /\ Running
    /\ dns_pc = "ns_query"
    /\ sem' = Release(sem)
    /\ dns_pc' = "acquire_fallback"
    /\ UNCHANGED <<cfg_vars, dns_trace, ns_count, axfr_pc, axfr_res, axfr_how,
                   dns_subdomains, dns_result, settle_order, crt_vars,
                   main_vars>>

\* lines 60-68, 73-75: the NS query raises; return set() leaves the block.
DnsNsFails ==
    /\ Running
    /\ dns_pc = "ns_query"
    /\ \E why \in {"NoNameservers", "Timeout", "Exception"} :
          /\ sem' = Release(sem)
          /\ DnsReturn({})
    /\ UNCHANGED <<cfg_vars, dns_trace, ns_count, axfr_pc, axfr_res, axfr_how,
                   dns_subdomains, crt_vars, main_vars>>

DnsNsAnswersKeepingSlot ==
    /\ Running
    /\ dns_pc = "ns_query"
    /\ \E n \in 1..MaxNS :
          /\ ns_count' = n
          /\ axfr_pc' = [i \in NS |-> IF i <= n THEN "acquire" ELSE "idle"]
    /\ sem' = sem
    /\ dns_pc' = "fanout"
    /\ UNCHANGED <<cfg_vars, dns_trace, axfr_res, axfr_how, dns_subdomains,
                   dns_result, crt_vars, settle_order, main_vars>>

\* lines 59, 70-82: the NS query answers with n nameservers; the block is
\* left, one attempt_axfr per nameserver is started and gathered.
DnsNsAnswers ==
    /\ Running
    /\ dns_pc = "ns_query"
    /\ \E n \in 1..MaxNS :
          /\ ns_count' = n
          /\ axfr_pc' = [i \in NS |-> IF i <= n THEN "acquire" ELSE "idle"]
    /\ sem' = Release(sem)
    /\ dns_pc' = "fanout"
    /\ UNCHANGED <<cfg_vars, dns_trace, axfr_res, axfr_how, dns_subdomains, dns_result,
                   crt_vars, settle_order, main_vars>>

\* line 137: async with semaphore
AxfrAcquire(i) ==
    /\ Running
    /\ axfr_pc[i] = "acquire"
    /\ CanAcquire(sem)
    /\ sem' = sem - 1
    /\ axfr_pc' = [axfr_pc EXCEPT ![i] = "xfr"]
    /\ dns_queries' = Append(dns_queries, "AXFR")
    /\ UNCHANGED <<cfg_vars, wildcard_txt, mx_records, dns_pc, ns_count, axfr_res, axfr_how,
                   dns_subdomains, dns_result, crt_vars, settle_order,
                   main_vars>>

\* attempt_axfr returns v, leaving its block.
AxfrReturn(i, how, v) ==
    /\ sem' = Release(sem)
    /\ axfr_pc' = [axfr_pc EXCEPT ![i] = "done"]
    /\ axfr_res' = [axfr_res EXCEPT ![i] = v]
    /\ axfr_how' = [axfr_how EXCEPT ![i] = how]
    /\ UNCHANGED <<cfg_vars, dns_trace, dns_pc, ns_count, dns_subdomains, dns_result,
                   crt_vars, settle_order, main_vars>>

\* lines 142-162: the transfer succeeds; the names of the zone are filtered.
AxfrTransfers(i) ==
    /\ Running
    /\ axfr_pc[i] = "xfr"
    /\ \E zone \in Zones : AxfrReturn(i, "ok", AxfrFound(domain, zone))

\* lines 163-165: FormError
AxfrRefused(i) ==
    /\ Running
    /\ axfr_pc[i] = "xfr"
    /\ AxfrReturn(i, "failed", {})

\* lines 166-168: Timeout
AxfrTimesOut(i) ==
    /\ Running
    /\ axfr_pc[i] = "xfr"
    /\ AxfrReturn(i, "failed", {})

\* lines 169-172: any other exception
AxfrErrors(i) ==
    /\ Running
    /\ axfr_pc[i] = "xfr"
    /\ AxfrReturn(i, "failed", {})

MergeSuppressedByFailure(results) ==
    IF \E i \in DOMAIN results : results[i] = {}
    THEN {}
    ELSE UNION { results[i] : i \in DOMAIN results }

\* lines 84-92: every result that is a non-empty set is added to subdomains.
AxfrMerge(results) ==
    UNION { results[i] : i \in { j \in DOMAIN results : results[j] # {} } }

DnsMergesEarly ==
    /\ Running
    /\ dns_pc = "fanout"
    /\ \E i \in 1..ns_count : axfr_pc[i] = "done"
    /\ LET merged == AxfrMerge([i \in 1..ns_count |-> axfr_res[i]])
       IN  /\ dns_subdomains' = merged
           /\ IF merged # {}
              THEN /\ DnsReturn(merged)
                   /\ UNCHANGED <<axfr_pc, axfr_res, axfr_how>>
              ELSE /\ dns_pc' = "acquire_fallback"
                   /\ axfr_pc' = [i \in NS |-> "idle"]
                   /\ axfr_res' = [i \in NS |-> {}]
                   /\ axfr_how' = [i \in NS |-> "none"]
                   /\ UNCHANGED <<dns_result, settle_order>>
    /\ UNCHANGED <<cfg_vars, sem, ns_count, dns_trace, crt_vars, main_vars>>

\* line 82 onwards: gather has every probe's result; merge; return the
\* merged set if it is not empty (lines 95, 133), else go to the fallback,
\* which uses neither the probes nor axfr_results again.
DnsMerges ==
    /\ Running
    /\ dns_pc = "fanout"
    /\ \A i \in 1..ns_count : axfr_pc[i] = "done"
    /\ LET merged == AxfrMerge([i \in 1..ns_count |-> axfr_res[i]])
       IN  /\ dns_subdomains' = merged
           /\ IF merged # {}
              THEN /\ DnsReturn(merged)
                   /\ UNCHANGED <<axfr_pc, axfr_res, axfr_how>>
              ELSE /\ dns_pc' = "acquire_fallback"
                   /\ axfr_pc' = [i \in NS |-> "idle"]
                   /\ axfr_res' = [i \in NS |-> {}]
                   /\ axfr_how' = [i \in NS |-> "none"]
                   /\ UNCHANGED <<dns_result, settle_order>>
    /\ UNCHANGED <<cfg_vars, sem, ns_count, dns_trace, crt_vars, main_vars>>

\* line 99: async with semaphore
DnsAcquireFallback ==
    /\ Running
    /\ dns_pc = "acquire_fallback"
    /\ CanAcquire(sem)
    /\ sem' = sem - 1
    /\ dns_pc' = "txt_query"
    /\ dns_queries' = Append(dns_queries, "TXT")
    /\ UNCHANGED <<cfg_vars, wildcard_txt, mx_records, ns_count, axfr_pc, axfr_res, axfr_how,
                   dns_subdomains, dns_result, crt_vars, settle_order,
                   main_vars>>

DnsTxtAnswerSkipsMx ==
    /\ Running
    /\ dns_pc = "txt_query"
    /\ \E how \in {"answer", "NXDOMAIN", "Timeout", "Exception"} :
          IF how = "answer"
          THEN /\ DnsReturn(dns_subdomains)
               /\ sem' = Release(sem)
               /\ UNCHANGED dns_trace
          ELSE /\ wildcard_txt' = how
               /\ dns_pc' = "mx_query"
               /\ dns_queries' = Append(dns_queries, "MX")
               /\ UNCHANGED <<mx_records, sem, dns_result, settle_order>>
    /\ UNCHANGED <<cfg_vars, ns_count, axfr_pc, axfr_res, axfr_how,
                   dns_subdomains, crt_vars, main_vars>>

\* lines 101-112: the wildcard TXT query ends, whichever way; only a print.
DnsTxtEnds ==
    /\ Running
    /\ dns_pc = "txt_query"
    /\ \E how \in {"answer", "NXDOMAIN", "Timeout", "Exception"} :
          /\ wildcard_txt' = how
          /\ dns_pc' = "mx_query"
    /\ dns_queries' = Append(dns_queries, "MX")
    /\ UNCHANGED <<cfg_vars, mx_records, sem, ns_count, axfr_pc, axfr_res, axfr_how,
                   dns_subdomains, dns_result, crt_vars, settle_order,
                   main_vars>>

\* lines 117-127, 133: the MX query answers.
DnsMxAnswers ==
    /\ Running
    /\ dns_pc = "mx_query"
    /\ \E answer \in MxAnswers :
          LET subs == dns_subdomains \cup MxHosts(domain, answer)
          IN  /\ mx_records' = answer
              /\ dns_subdomains' = subs
              /\ DnsReturn(subs)
    /\ wildcard_txt' = "none"
    /\ sem' = Release(sem)
    /\ UNCHANGED <<cfg_vars, dns_queries, ns_count, axfr_pc, axfr_res, axfr_how, crt_vars,
                   main_vars>>

\* lines 128-131, 133: the MX query raises.
DnsMxFails ==
    /\ Running
    /\ dns_pc = "mx_query"
    /\ \E why \in {"Timeout", "Exception"} : DnsReturn(dns_subdomains)
    /\ wildcard_txt' = "none"
    /\ sem' = Release(sem)
    /\ UNCHANGED <<cfg_vars, dns_queries, mx_records, ns_count, axfr_pc, axfr_res, axfr_how,
                   dns_subdomains, crt_vars, main_vars>>

\* ------------------------------------------------------------------ crt.sh retriever
\* The block is left by break or by running out of attempts; lines 266-267
\* return subdomains.
CrtFinish(subs) ==
    /\ sem' = Release(sem)
    /\ crt_pc' = "done"
    /\ crt_subdomains' = subs
    /\ crt_result' = SetResult(subs)
    /\ settle_order' = Append(settle_order, "crt")

\* lines 188-189: async with semaphore; an empty range(max_retries) leaves
\* the block at once.
CrtAcquire ==
    /\ Running
    /\ crt_pc = "acquire"
    /\ CanAcquire(sem)
    /\ IF max_retries > 0
       THEN /\ sem' = sem - 1
            /\ crt_pc' = "request"
            /\ UNCHANGED <<crt_subdomains, crt_result, settle_order>>
       ELSE /\ sem' = Release(sem - 1)
            /\ crt_pc' = "done"
            /\ crt_result' = SetResult(crt_subdomains)
            /\ settle_order' = Append(settle_order, "crt")
            /\ UNCHANGED crt_subdomains
    /\ UNCHANGED <<cfg_vars, dns_vars, attempt, crt_log, crt_body, delays,
                   main_vars>>

\* lines 193-230: status 200.
CrtAnswers200 ==
    /\ Running
    /\ crt_pc = "request"
    /\ \E body \in Bodies :
          LET r == On200(domain, body, crt_subdomains)
          IN  /\ crt_body' = IF body.text = "json" /\ body.data # <<>>
                            THEN body
                            ELSE crt_body
              /\ CASE r.then = "return" ->
                        /\ crt_log' = Append(crt_log, "ok")
                        /\ CrtFinish(r.subdomains)
                        /\ UNCHANGED attempt
                   [] r.then = "break" ->
                        /\ crt_log' = Append(crt_log, "break")
                        /\ CrtFinish(r.subdomains)
                        /\ UNCHANGED attempt
                   [] r.then = "decode_error" ->
                        /\ crt_log' = Append(crt_log, "decode_error")
                        /\ IF RetryAfterDecodeError(attempt, max_retries)
                           THEN /\ attempt' = attempt + 1
                                /\ UNCHANGED <<sem, crt_pc, crt_subdomains,
                                               crt_result, settle_order>>
                           ELSE /\ CrtFinish(r.subdomains)
                                /\ UNCHANGED attempt
    /\ UNCHANGED <<cfg_vars, dns_vars, delays, main_vars>>

\* The three retrying branches (lines 236-242, 249-255, 258-264): sleep
\* initial_delay * 2 ** attempt if an attempt is left, else break.
CrtBackoffOrBreak ==
    /\ crt_log' = Append(crt_log, "transient")
    /\ IF HasRetryLeft(attempt, max_retries)
       THEN /\ delays' = Append(delays, Backoff(attempt))
            /\ crt_pc' = "sleep"
            /\ UNCHANGED <<sem, crt_subdomains, crt_result, settle_order>>
       ELSE /\ CrtFinish(crt_subdomains)
            /\ UNCHANGED delays
    /\ UNCHANGED <<cfg_vars, dns_vars, attempt, crt_body, main_vars>>

CrtRetriesAnyStatus ==
    /\ Running
    /\ crt_pc = "request"
    /\ \E status \in HttpStatuses :
          IF status \in TransientStatuses
          THEN CrtBackoffOrBreak
          ELSE /\ crt_log' = Append(crt_log, "status")
               /\ IF HasRetryLeft(attempt, max_retries)
                  THEN /\ delays' = Append(delays, Backoff(attempt))
                       /\ crt_pc' = "sleep"
                       /\ UNCHANGED <<sem, crt_subdomains, crt_result,
                                      settle_order>>
                  ELSE /\ CrtFinish(crt_subdomains)
                       /\ UNCHANGED delays
               /\ UNCHANGED <<cfg_vars, dns_vars, attempt, crt_body,
                              main_vars>>

\* lines 233-245: a status other than 200.
CrtAnswersStatus ==
    /\ Running
    /\ crt_pc = "request"
    /\ \E status \in HttpStatuses :
          IF status \in TransientStatuses
          THEN CrtBackoffOrBreak
          ELSE /\ crt_log' = Append(crt_log, "status")
               /\ CrtFinish(crt_subdomains)
               /\ UNCHANGED <<cfg_vars, dns_vars, attempt, crt_body, delays,
                              main_vars>>

\* lines 247-255: asyncio.TimeoutError
CrtTimesOut ==
    /\ Running
    /\ crt_pc = "request"
    /\ CrtBackoffOrBreak

\* lines 256-264: aiohttp.ClientError
CrtClientError ==
    /\ Running
    /\ crt_pc = "request"
    /\ CrtBackoffOrBreak

\* Any other exception of session.get leaves the function: results[1] is
\* the exception (gather, return_exceptions=True).
CrtRaises ==
    /\ Running
    /\ crt_pc = "request"
    /\ crt_log' = Append(crt_log, "raise")
    /\ sem' = Release(sem)
    /\ crt_pc' = "done"
    /\ crt_result' = ExcResult
    /\ settle_order' = Append(settle_order, "crt")
    /\ UNCHANGED <<cfg_vars, dns_vars, attempt, crt_subdomains, crt_body,
                   delays, main_vars>>

CrtWakesReleasing ==
    /\ Running
    /\ crt_pc = "sleep"
    /\ attempt' = attempt + 1
    /\ crt_pc' = "request"
    /\ sem' = Release(sem)
    /\ UNCHANGED <<cfg_vars, dns_vars, crt_subdomains, crt_result,
                   crt_log, crt_body, delays, settle_order, main_vars>>

\* asyncio.sleep(retry_delay) is over: the next iteration's request.
CrtWakes ==
    /\ Running
    /\ crt_pc = "sleep"
    /\ attempt' = attempt + 1
    /\ crt_pc' = "request"
    /\ UNCHANGED <<cfg_vars, sem, dns_vars, crt_subdomains, crt_result,
                   crt_log, crt_body, delays, settle_order, main_vars>>

\* ------------------------------------------------------------------ main
GatherStopsAtFirstError(dk, ck) ==
    \/ dk # "pending" /\ ck # "pending"
    \/ dk = "exc"
    \/ ck = "exc"

\* line 288: gather(dns_task, crtsh_task, return_exceptions=True) returns
\* when both have a result, a set or an exception.
GatherSettled(dk, ck) == dk # "pending" /\ ck # "pending"

\* lines 291-304: a task's set, or the empty set for an exception.
SetOf(result) == IF result.kind = "set" THEN result.value ELSE {}

UnionFirstNonEmpty(dns_subs, crtsh_subs) ==
    IF dns_subs # {} THEN dns_subs ELSE crtsh_subs

\* line 308: dns_subs.union(crtsh_subs)
Union(dns_subs, crtsh_subs) == dns_subs \cup crtsh_subs

\* lines 288-309: gather returns the two results; the coroutines have
\* returned and their frames are gone, results is all that is left of them.
MainMerges ==
    /\ main_pc = "gather"
    /\ GatherSettled(dns_result.kind, crt_result.kind)
    /\ all_subdomains' = Sorted(Union(SetOf(dns_result), SetOf(crt_result)))
    /\ main_pc' = "write"
    /\ ns_count' = 0
    /\ axfr_pc' = [i \in NS |-> "idle"]
    /\ axfr_res' = [i \in NS |-> {}]
    /\ axfr_how' = [i \in NS |-> "none"]
    /\ dns_subdomains' = {}
    /\ dns_queries' = <<>>
    /\ wildcard_txt' = "none"
    /\ mx_records' = {}
    /\ attempt' = 0
    /\ crt_subdomains' = {}
    /\ crt_log' = <<>>
    /\ crt_body' = NoBody
    /\ delays' = <<>>
    /\ UNCHANGED <<cfg_vars, sem, dns_pc, dns_result, crt_pc, crt_result,
                   settle_order, output, write_state, exit_code>>

\* lines 312-323, 327: the file is written; main returns, exit status 0.
MainWrites ==
    /\ main_pc = "write"
    /\ output' = FileLines(all_subdomains)
    /\ write_state' = "ok"
    /\ main_pc' = "done"
    /\ exit_code' = 0
    /\ UNCHANGED <<cfg_vars, sem, dns_vars, crt_vars, settle_order,
                   all_subdomains>>

\* lines 312-327: makedirs, open or write raises; the exception is printed,
\* main returns, exit status 0.  A failing write leaves some of the lines.
MainWriteFails ==
    /\ main_pc = "write"
    /\ \E stage \in {"makedirs", "open", "write"} :
          IF stage = "write"
          THEN \E n \in 0..(Len(FileLines(all_subdomains)) - 1) :
                  output' = SubSeq(FileLines(all_subdomains), 1, n)
          ELSE output' = output
    /\ write_state' = "error"
    /\ main_pc' = "done"
    /\ exit_code' = 0
    /\ UNCHANGED <<cfg_vars, sem, dns_vars, crt_vars, settle_order,
                   all_subdomains>>

InterruptFlushes ==
    /\ main_pc \in {"gather", "write"}
    /\ main_pc' = "interrupted"
    /\ exit_code' = 0
    /\ sem' = concurrency
    /\ dns_pc' = "cancelled"
    /\ crt_pc' = "cancelled"
    /\ ns_count' = 0
    /\ axfr_pc' = [i \in NS |-> "cancelled"]
    /\ axfr_res' = [i \in NS |-> {}]
    /\ axfr_how' = [i \in NS |-> "none"]
    /\ dns_subdomains' = {}
    /\ dns_queries' = <<>>
    /\ wildcard_txt' = "none"
    /\ mx_records' = {}
    /\ dns_result' = Pending
    /\ attempt' = 0
    /\ crt_subdomains' = {}
    /\ crt_result' = Pending
    /\ crt_log' = <<>>
    /\ crt_body' = NoBody
    /\ delays' = <<>>
    /\ settle_order' = <<>>
    /\ all_subdomains' = <<>>
    /\ output' = <<Placeholder>>
    /\ write_state' = "ok"
    /\ UNCHANGED cfg_vars

\* lines 339-341: KeyboardInterrupt ends asyncio.run; the tasks are
\* cancelled (leaving their blocks), the process exits with status 0 and
\* its memory is gone; the file is as it was.
Interrupt ==
    /\ main_pc \in {"gather", "write"}
    /\ main_pc' = "interrupted"
    /\ exit_code' = 0
    /\ sem' = concurrency
    /\ dns_pc' = "cancelled"
    /\ crt_pc' = "cancelled"
    /\ ns_count' = 0
    /\ axfr_pc' = [i \in NS |-> "cancelled"]
    /\ axfr_res' = [i \in NS |-> {}]
    /\ axfr_how' = [i \in NS |-> "none"]
    /\ dns_subdomains' = {}
    /\ dns_queries' = <<>>
    /\ wildcard_txt' = "none"
    /\ mx_records' = {}
    /\ dns_result' = Pending
    /\ attempt' = 0
    /\ crt_subdomains' = {}
    /\ crt_result' = Pending
    /\ crt_log' = <<>>
    /\ crt_body' = NoBody
    /\ delays' = <<>>
    /\ settle_order' = <<>>
    /\ all_subdomains' = <<>>
    /\ UNCHANGED <<cfg_vars, output, write_state>>

\* ------------------------------------------------------------------ specification
Run ==
    \/ DnsAcquireNs
    \/ DnsNsFails
    \/ DnsNsAnswers
    \/ \E i \in NS : AxfrAcquire(i)
    \/ \E i \in NS : AxfrTransfers(i)
    \/ \E i \in NS : AxfrRefused(i)
    \/ \E i \in NS : AxfrTimesOut(i)
    \/ \E i \in NS : AxfrErrors(i)
    \/ DnsMerges
    \/ DnsAcquireFallback
    \/ DnsTxtEnds
    \/ DnsMxAnswers
    \/ DnsMxFails
    \/ CrtAcquire
    \/ CrtAnswers200
    \/ CrtAnswersStatus
    \/ CrtTimesOut
    \/ CrtClientError
    \/ CrtRaises
    \/ CrtWakes
    \/ MainMerges
    \/ MainWrites
    \/ MainWriteFails

Next == Run \/ Interrupt

Spec == Init /\ [][Next]_vars

\* Every network operation returns and the event loop runs every task that
\* can run; no interrupt.
LiveSpec == Init /\ [][Run]_vars /\ WF_vars(Run)

\* ------------------------------------------------------------------ properties
\* The tasks inside an "async with semaphore" block.
Holders ==
    (IF dns_pc \in {"ns_query", "txt_query", "mx_query"} THEN {<<"dns", 0>>} ELSE {})
    \cup { <<"axfr", i>> : i \in { j \in NS : axfr_pc[j] = "xfr" } }
    \cup (IF crt_pc \in {"request", "sleep"} THEN {<<"crt", 0>>} ELSE {})

Settled == dns_pc = "done" /\ crt_pc = "done"

\* C1: in every reachable state the number of tasks holding a slot of the
\* semaphore (NS lookup, each attempt_axfr, the fallback block, the crt.sh
\* retriever) is at most the concurrency limit.
C1_AtMostCHolders == Cardinality(Holders) <= concurrency

\* The limit is reached while a probe waits for a slot.
C1_Witness ==
    /\ concurrency >= 2
    /\ Cardinality(Holders) = concurrency
    /\ <<"crt", 0>> \in Holders
    /\ \E i \in NS : axfr_pc[i] = "acquire"

\* C2: no slot is leaked: the free slots and the held ones always add up to
\* the limit, so once both pipelines have settled every slot is free again.
C2_NoSlotLeaked ==
    /\ sem + Cardinality(Holders) = concurrency
    /\ Settled => sem = concurrency

\* Both settled through error paths: the NS lookup failed, the retriever
\* raised after a retry.
C2_Witness ==
    /\ Settled
    /\ main_pc = "gather"
    /\ dns_result = SetResult({})
    /\ ns_count = 0
    /\ crt_result = ExcResult
    /\ Len(crt_log) >= 2
    /\ sem = concurrency

\* C3: when every network operation returns and nothing interrupts the run,
\* both pipelines settle and main reaches the writing of the output.
C3_ReachesOutput ==
    <>(/\ main_pc = "write"
       /\ dns_result.kind # "pending"
       /\ crt_result.kind # "pending")

\* main is about to write although the retriever raised and the NS lookup
\* failed, with a single slot.
C3_Witness ==
    /\ main_pc = "write"
    /\ concurrency = 1
    /\ crt_result = ExcResult
    /\ dns_result = SetResult({})

Merged == main_pc \in {"write", "done"}

\* C4: main goes on only when both the DNS pipeline and the retriever have
\* settled; a task that raised or came back empty cancels nothing, and the
\* final list holds every name of each task that returned a set.
C4_WaitsForBoth ==
    /\ Merged =>
          /\ Settled
          /\ dns_result.kind # "pending" /\ crt_result.kind # "pending"
          /\ dns_result.kind = "set" =>
                dns_result.value \subseteq SeqToSet(all_subdomains)
          /\ crt_result.kind = "set" =>
                crt_result.value \subseteq SeqToSet(all_subdomains)
    /\ main_pc # "interrupted" =>
          /\ dns_pc # "cancelled" /\ crt_pc # "cancelled"
          /\ \A i \in NS : axfr_pc[i] # "cancelled"

\* The retriever raised first; the DNS pipeline went on and its names are
\* in the final list.
C4_Witness ==
    /\ main_pc = "write"
    /\ crt_result = ExcResult
    /\ settle_order = <<"crt", "dns">>
    /\ dns_result.kind = "set" /\ dns_result.value # {}
    /\ SeqToSet(all_subdomains) = dns_result.value

\* C5: the final list is exactly the union of the DNS set and the crt.sh
\* set, each name once, whichever task settled first and however the two
\* interleaved.
C5_ExactUnion ==
    Merged =>
       /\ SeqToSet(all_subdomains) = SetOf(dns_result) \cup SetOf(crt_result)
       /\ Len(all_subdomains)
            = Cardinality(SetOf(dns_result) \cup SetOf(crt_result))

\* Two overlapping sets of two names give the three names, here with the
\* retriever settling first.
C5_Witness ==
    /\ main_pc = "write"
    /\ settle_order = <<"crt", "dns">>
    /\ Cardinality(dns_result.value) = 2
    /\ Cardinality(crt_result.value) = 2
    /\ Cardinality(dns_result.value \cap crt_result.value) = 1
    /\ Len(all_subdomains) = 3

\* The sets of the probes that ended without raising.
SucceededUnion ==
    UNION { axfr_res[i] : i \in { j \in 1..ns_count : axfr_how[j] = "ok" } }

\* C6: the step that merges the AXFR results leaves in subdomains exactly
\* the union of the sets of the probes that succeeded, whatever the other
\* probes did and in whatever order they ended; a non-empty merge is what
\* the pipeline returns.
C6_MergeIsUnionOfSuccesses ==
    [][(dns_pc = "fanout" /\ dns_pc' \in {"done", "acquire_fallback"}) =>
          /\ dns_subdomains' = SucceededUnion
          /\ dns_pc' = "done" <=> SucceededUnion # {}
          /\ dns_pc' = "done" => dns_result' = SetResult(SucceededUnion)]_vars

\* Two nameservers: the probe of the first failed, after the probe of the
\* second had returned one name; the merge is that name.
C6_Witness ==
    /\ dns_pc = "done"
    /\ ns_count = 2
    /\ axfr_how[1] = "failed" /\ axfr_how[2] = "ok"
    /\ axfr_res[2] = { <<"a", ".", "d">> }
    /\ dns_result = SetResult({ <<"a", ".", "d">> })

\* The names section 4.4 asks for: each line of each name_value field,
\* without surrounding blanks and without a leading wildcard marker, in
\* lower case, if it is a proper subdomain of the target.
StripWildcard(n) == IF StartsWith(n, Wild) THEN SubSeq(n, 3, Len(n)) ELSE n

ProperSubdomain(dom, n) == EndsWith(n, Dot \o Lower(dom)) /\ n # Lower(dom)

LinesOf(body) ==
    UNION { SeqToSet(SplitLines(body.data[i].name_value)) :
              i \in 1..Len(body.data) }

ExpectedNames(dom, body) ==
    { n \in { Lower(StripWildcard(Strip(l))) : l \in LinesOf(body) } :
        ProperSubdomain(dom, n) }

OnlyTransientThenOk ==
    /\ crt_log # <<>>
    /\ crt_log[Len(crt_log)] = "ok"
    /\ \A i \in 1..(Len(crt_log) - 1) : crt_log[i] = "transient"

\* C7: after k transient failures and then a 200 with a valid body
\* (k < max_retries) the retriever has made k + 1 attempts, has slept the
\* delays 2 * 2^i for i = 0..k-1 in that order and nothing else, and
\* returns the names of that body.
C7_RetriesThenSuccess ==
    (crt_pc = "done" /\ OnlyTransientThenOk) =>
       LET k == Len(crt_log) - 1
       IN  /\ k < max_retries
           /\ attempt = k
           /\ delays = [i \in 1..k |-> 2 * (2 ^ (i - 1))]
           /\ crt_result = SetResult(ExpectedNames(domain, crt_body))

\* Two transient failures, then the body with a wildcard name and a
\* duplicate: three attempts, delays 2 and 4, two names.
C7_Witness ==
    /\ crt_pc = "done"
    /\ crt_log = <<"transient", "transient", "ok">>
    /\ crt_body = BodyGood
    /\ delays = <<2, 4>>
    /\ crt_result = SetResult({ <<"a", ".", "d">>, <<"b", ".", "d">> })

OnlyDecodeErrors ==
    /\ crt_log # <<>>
    /\ \A i \in 1..Len(crt_log) : crt_log[i] = "decode_error"

C9_NamesNormalized ==
    \A i \in 1..Len(all_subdomains) :
       /\ all_subdomains[i] # domain
       /\ ~StartsWith(all_subdomains[i], Wild)
       /\ all_subdomains[i] = Lower(all_subdomains[i])

Found == SetOf(dns_result) \cup SetOf(crt_result)

\* C10: a written file has the placeholder as its only line when nothing
\* was found; otherwise one line per name found, ascending, none of them
\* blank or the placeholder.
C10_OutputLines ==
    write_state = "ok" =>
       IF Found = {}
       THEN output = <<Placeholder>>
       ELSE /\ Len(output) = Cardinality(Found)
            /\ SeqToSet(output) = Found
            /\ \A i \in 1..Len(output) : \A j \in 1..Len(output) :
                  i < j => StrLess(output[i], output[j])
            /\ \A i \in 1..Len(output) :
                  output[i] # <<>> /\ output[i] # Placeholder

\* Three names written in ascending order, the wildcard name first.
C10_Witness ==
    /\ write_state = "ok"
    /\ output = << <<"*", ".", "d">>, <<"a", ".", "d">>, <<"b", ".", "d">> >>

\* Nothing found: the placeholder alone.
C10_WitnessEmpty == write_state = "ok" /\ Found = {} /\ Len(output) = 1

\* C11: a run whose writing of the output file failed (makedirs, open or
\* write raised) does not end with exit status 0.
C11_WriteFailureExitsNonZero ==
    (write_state = "error" /\ exit_code # -1) => exit_code # 0

\* C12: when the MX lookup of the fallback answers, the DNS pipeline returns
\* exactly the exchanges which, lower-cased and without trailing dots, end
\* with "." followed by the lower-cased domain; the apex itself and hosts of
\* other domains are not among them.
C12_Host(x) == Lower(RStripDot(x))

C12_UnderDomain(h) ==
    LET suffix == <<".">> \o Lower(domain)
    IN  /\ Len(h) >= Len(suffix)
        /\ \A k \in 1..Len(suffix) : h[Len(h) - Len(suffix) + k] = suffix[k]

C12_MxHostsFiltered ==
    (main_pc = "gather" /\ dns_pc = "done"
       /\ \E k \in DOMAIN dns_queries : dns_queries[k] = "MX") =>
       /\ \A h \in dns_result.value :
             /\ C12_UnderDomain(h)
             /\ \E x \in mx_records : h = C12_Host(x)
             /\ h # Lower(domain)
       /\ \A x \in mx_records :
             C12_UnderDomain(C12_Host(x)) => C12_Host(x) \in dns_result.value

\* The domain is "D"; the answer names A.d. and b.e.; only a.d is returned.
C12_Witness ==
    /\ main_pc = "gather"
    /\ dns_pc = "done"
    /\ domain = <<"D">>
    /\ mx_records = { <<"A", ".", "d", ".">>, <<"b", ".", "e", ".">> }
    /\ dns_result = SetResult({ <<"a", ".", "d">> })

\* The answer names the apex d. and ad.; nothing is returned.
C12_WitnessApex ==
    /\ main_pc = "gather"
    /\ dns_pc = "done"
    /\ <<"d", ".">> \in mx_records
    /\ dns_result = SetResult({})

\* C13: whatever the attempts meet, there are never more than max_retries of
\* them; the sleep after the failed attempt number a (from 0) lasts
\* 2 * 2^a seconds; and the last permitted attempt is followed by no sleep.
C13_Slept ==
    { i \in DOMAIN crt_log : crt_log[i] = "transient" /\ i < max_retries }

C13_Nth(k) ==
    CHOOSE i \in C13_Slept : Cardinality({ j \in C13_Slept : j < i }) = k - 1

C13_BoundedBackoff ==
    /\ Len(crt_log) <= max_retries
    /\ attempt <= Len(crt_log)
    /\ crt_pc = "request" => attempt = Len(crt_log) /\ attempt < max_retries
    /\ crt_pc = "sleep" => attempt + 1 = Len(crt_log) /\ attempt + 1 < max_retries
    /\ Len(delays) = Cardinality(C13_Slept)
    /\ \A k \in DOMAIN delays : delays[k] = 2 * 2 ^ (C13_Nth(k) - 1)

\* Every permitted attempt met a transient failure: two sleeps, of 2 and 4
\* seconds, and none after the third attempt.
C13_Witness ==
    /\ max_retries = MaxRetries
    /\ crt_pc = "done"
    /\ Len(crt_log) = MaxRetries
    /\ \A i \in DOMAIN crt_log : crt_log[i] = "transient"
    /\ Len(delays) = MaxRetries - 1
    /\ delays[1] = 2
    /\ delays[Len(delays)] = 2 ^ (MaxRetries - 1)

\* C14: an attempt answered with a status that is neither 200 nor one of
\* 500, 502, 503, 504, 429 is the last one: no sleep follows, no further
\* request is made, the slot is released and the call returns the empty set.
C14_StatusEndsCall ==
    [][ /\ crt_log' = Append(crt_log, "status") =>
             /\ crt_pc = "request"
             /\ crt_pc' = "done"
             /\ delays' = delays
             /\ attempt' = attempt
             /\ sem' = sem + 1
             /\ crt_result' = SetResult({})
        /\ (crt_log # <<>> /\ crt_log[Len(crt_log)] = "status") =>
             /\ crt_pc' \in {"done", "cancelled"}
             /\ crt_log' \in {crt_log, <<>>}
             /\ delays' \in {delays, <<>>}
      ]_vars

\* A 404 on the second of three permitted attempts: one sleep, then the end.
C14_Witness ==
    /\ max_retries = 3
    /\ crt_pc = "done"
    /\ crt_log = <<"transient", "status">>
    /\ delays = <<2>>
    /\ crt_result = SetResult({})

\* C15: one call of get_subdomains_from_crtsh takes a slot once, before its
\* first attempt, gives it back once, when it ends, and leaves the semaphore
\* alone in between, over every attempt and every sleep.
C15_OneSlotPerCall ==
    [][ (main_pc = "gather" /\ main_pc' = "gather" /\ crt_vars' # crt_vars) =>
          CASE crt_pc = "acquire" /\ crt_pc' = "request" ->
                    sem > 0 /\ sem' = sem - 1
            [] crt_pc = "acquire" /\ crt_pc' = "done" ->
                    sem > 0 /\ sem' = sem /\ max_retries = 0
            [] crt_pc \in {"request", "sleep"}
                 /\ crt_pc' \in {"request", "sleep"} -> sem' = sem
            [] crt_pc \in {"request", "sleep"} /\ crt_pc' = "done" ->
                    sem' = sem + 1
            [] OTHER -> FALSE
      ]_vars

\* Asleep after the second failed attempt, the DNS pipeline over: the one
\* slot missing from the semaphore is the one taken before the first attempt.
C15_Witness ==
    /\ main_pc = "gather"
    /\ dns_pc = "done"
    /\ crt_pc = "sleep"
    /\ Len(delays) = 2
    /\ sem = concurrency - 1

\* C16: when the NS lookup fails, the DNS pipeline returns the empty set at
\* once: the NS request is the only one it ever issues, no zone transfer is
\* started, and neither the TXT nor the MX lookup follows.
C16_NsFailureEndsPipeline ==
    (main_pc = "gather" /\ ns_count = 0) =>
       /\ dns_pc \in {"acquire_ns", "ns_query", "done"}
       /\ \A i \in NS : axfr_pc[i] = "idle"
       /\ dns_pc = "done" =>
             /\ dns_result = SetResult({})
             /\ dns_queries = <<"NS">>
             /\ mx_records = {}

\* The NS lookup failed and the crt.sh call has ended since.
C16_Witness ==
    /\ main_pc = "gather"
    /\ ns_count = 0
    /\ dns_pc = "done"
    /\ dns_queries = <<"NS">>
    /\ dns_result = SetResult({})
    /\ crt_pc = "done"
    /\ settle_order = <<"dns", "crt">>

\* C17: the DNS pipeline issues its requests in the order NS, the zone
\* transfers, TXT, MX.  The results are merged only when every probe has
\* settled; TXT and MX are issued, TXT first, if and only if the merged set is
\* empty; a merged set that is not empty is returned as it is.
C17_Rank(q) ==
    CASE q = "NS" -> 1 [] q = "AXFR" -> 2 [] q = "TXT" -> 3 [] q = "MX" -> 4

C17_Count(q) ==
    Cardinality({ k \in DOMAIN dns_queries : dns_queries[k] = q })

C17_InOrder ==
    /\ \A j \in DOMAIN dns_queries : \A k \in DOMAIN dns_queries :
          j < k => C17_Rank(dns_queries[j]) <= C17_Rank(dns_queries[k])
    /\ C17_Count("NS") <= 1 /\ C17_Count("TXT") <= 1 /\ C17_Count("MX") <= 1
    /\ C17_Count("AXFR") <= ns_count
    /\ C17_Count("MX") = 1 => C17_Count("TXT") = 1
    /\ C17_Count("TXT") = 1 =>
          C17_Count("AXFR") = ns_count /\ ns_count > 0
    /\ (main_pc = "gather" /\ dns_pc = "done" /\ ns_count > 0) =>
          (C17_Count("MX") = 0 => dns_result.value # {})

C17_Merged == UNION { axfr_res[i] : i \in 1..ns_count }

C17_PipelineOrder ==
    [][ /\ C17_InOrder'
        /\ (main_pc' = "gather" /\ dns_pc = "fanout" /\ dns_pc' # "fanout") =>
              /\ \A i \in 1..ns_count : axfr_pc[i] = "done"
              /\ dns_queries' = dns_queries
              /\ IF C17_Merged = {}
                 THEN dns_pc' = "acquire_fallback" /\ dns_result' = Pending
                 ELSE dns_pc' = "done" /\ dns_result' = SetResult(C17_Merged)
        /\ dns_queries' = Append(dns_queries, "TXT") =>
              dns_pc = "acquire_fallback" /\ dns_subdomains = {}
        /\ dns_queries' = Append(dns_queries, "MX") =>
              dns_pc = "txt_query" /\ dns_subdomains = {}
      ]_vars

\* Two transfers that found nothing, then TXT, then MX.
C17_Witness ==
    /\ main_pc = "gather"
    /\ dns_pc = "done"
    /\ ns_count = 2
    /\ dns_queries = <<"NS", "AXFR", "AXFR", "TXT", "MX">>

\* Two transfers of which one found names: the merged set is returned, no
\* TXT and no MX request is made.
C17_WitnessTransfer ==
    /\ main_pc = "gather"
    /\ dns_pc = "done"
    /\ ns_count = 2
    /\ dns_queries = <<"NS", "AXFR", "AXFR">>
    /\ \E i \in 1..2 : axfr_res[i] = {}
    /\ dns_result.value # {}

\* C18: however the wildcard TXT lookup ends (an answer, NXDOMAIN, a timeout,
\* another error), it adds no entry and returns nothing: the MX lookup is
\* issued next in every case, with the set of names and the slot as they
\* were, and what is returned afterwards comes from the MX answer alone.
C18_TxtChangesNothing ==
    [][ /\ (main_pc' = "gather" /\ dns_pc = "txt_query"
              /\ dns_vars' # dns_vars) =>
              /\ dns_pc' = "mx_query"
              /\ wildcard_txt' \in {"answer", "NXDOMAIN", "Timeout", "Exception"}
              /\ dns_queries' = Append(dns_queries, "MX")
              /\ dns_subdomains' = dns_subdomains
              /\ dns_subdomains' = {}
              /\ dns_result' = Pending
              /\ sem' = sem
              /\ settle_order' = settle_order
        /\ (main_pc' = "gather" /\ dns_pc = "mx_query"
              /\ dns_pc' # "mx_query") =>
              /\ dns_pc' = "done"
              /\ dns_result'.kind = "set"
              /\ dns_result'.value \subseteq
                    { Lower(RStripDot(x)) : x \in mx_records' }
      ]_vars

\* The wildcard name has a TXT record and the MX query is in flight.
C18_Witness ==
    /\ main_pc = "gather"
    /\ dns_pc = "mx_query"
    /\ wildcard_txt = "answer"
    /\ dns_queries[Len(dns_queries)] = "MX"
    /\ dns_subdomains = {}

\* The same after a timeout of the TXT query.
C18_WitnessTimeout ==
    /\ main_pc = "gather"
    /\ dns_pc = "mx_query"
    /\ wildcard_txt = "Timeout"

\* C19: the output file is written at most once in a run, and only when both
\* pipelines have settled and main has merged their results; a run that is
\* interrupted before that leaves no write behind.
C19_BothSettled ==
    /\ dns_result.kind # "pending"
    /\ crt_result.kind # "pending"
    /\ dns_pc = "done"
    /\ crt_pc = "done"
    /\ Len(settle_order) = 2
    /\ sem = concurrency

C19_WrittenOnceAfterBoth ==
    [][ /\ (output' # output \/ write_state' # write_state) =>
              /\ write_state = "none"
              /\ output = <<>>
              /\ main_pc = "write"
              /\ main_pc' = "done"
              /\ C19_BothSettled
        /\ main_pc' \in {"gather", "write", "interrupted"} =>
              write_state' = "none" /\ output' = <<>>
      ]_vars

\* The crt.sh call settled first, the DNS pipeline second, then the write.
C19_Witness ==
    /\ main_pc = "done"
    /\ write_state = "ok"
    /\ settle_order = <<"crt", "dns">>
    /\ Len(output) = 2

\* Interrupted: nothing was written.
C19_WitnessInterrupted ==
    /\ main_pc = "interrupted"
    /\ exit_code = 0
    /\ write_state = "none"
    /\ output = <<>>

\* The tasks waiting at an "async with semaphore".
C20_Waiters ==
    (IF dns_pc \in {"acquire_ns", "acquire_fallback"} THEN {<<"dns", 0>>} ELSE {})
    \cup { <<"axfr", i>> : i \in { j \in NS : axfr_pc[j] = "acquire" } }
    \cup (IF crt_pc = "acquire" THEN {<<"crt", 0>>} ELSE {})

\* C20: no task waits for a slot while it holds one (the DNS pipeline has
\* given its slot back when its probes ask for theirs), so even with a
\* single slot the run is never stuck with every live task waiting: whenever
\* tasks wait and no slot is free, some task holds one and can go on.
C20_NoSelfDeadlock ==
    main_pc = "gather" =>
       /\ Holders \cap C20_Waiters = {}
       /\ (\E i \in NS : axfr_pc[i] \in {"acquire", "xfr"}) =>
             dns_pc = "fanout"
       /\ (C20_Waiters # {} /\ ~CanAcquire(sem)) => Holders # {}
       /\ ENABLED Run

\* One slot, held by the sleeping retriever, while both probes wait for it.
C20_Witness ==
    /\ main_pc = "gather"
    /\ concurrency = 1
    /\ sem = 0
    /\ crt_pc = "sleep"
    /\ dns_pc = "fanout"
    /\ ns_count = 2
    /\ \A i \in 1..2 : axfr_pc[i] = "acquire"
====
